---- MODULE Spec2Model ----
(***************************************************************************)
(* Model of seqrepo-rs: the alias database (aliases.rs), the FASTA         *)
(* directory (fasta.rs), the repository facade (repo.rs) and the two       *)
(* cache decorators (cached.rs).                                           *)
(*                                                                         *)
(* A Rust String is a tuple of one-character strings, so that formatting   *)
(* and pattern matching are computed character by character.               *)
(* Option<T> is the record None or Some(x); Result<T, E> is Ok(v) or an    *)
(* error record.                                                           *)
(***************************************************************************)
EXTENDS Integers, Sequences, FiniteSets, TLC

VARIABLES
    db,         \* the rows of the seqalias table behind SeqRepo.alias_db
    cache,      \* CacheWritingSeqRepo.cache: HashMap<String, String>
    file,       \* the records written through CacheWritingSeqRepo.writer
    pc,         \* per thread: position inside fetch_sequence_part
    req,        \* per thread: the arguments of the call in progress
    val,        \* per thread: the local `value` of the call in progress
    ret,        \* per thread: what its last completed call returned
    ncalls,     \* per thread: number of calls it has started
    repoCalls,  \* number of calls made to the wrapped SeqRepo
    hist,       \* the completed calls, in completion order
    op,         \* the pure operation to apply ("to_...") or applied
    arg,        \* its argument
    out,        \* its result, once applied
    gen,        \* number of CacheWritingSeqRepo objects constructed on the file
    reading,    \* CacheReadingSeqRepo.cache, once one has been constructed
    meta,       \* the value of the 'schema version' row of the meta table
    store,      \* what SeqRepo::new returned, once it has been called
    cacheLock,  \* the thread holding the Mutex of `cache`, or 0
    writerLock, \* the thread holding the Mutex of `writer`, or 0
    lines       \* the lines written through `writer`, where write_record is
                \* followed line by line

vars == <<db, cache, file, pc, req, val, ret, ncalls, repoCalls, hist, op, arg, out, gen, reading,
          meta, store, cacheLock, writerLock, lines>>

-----------------------------------------------------------------------------
(* Bounds of the model. *)

\* number of threads sharing one CacheWritingSeqRepo
NumThreads == 2

\* total number of fetch_sequence_part calls started on the cache
MaxCalls == 3

\* largest begin / end of a request whose key is built
MaxPos == 11

\* number of times a CacheWritingSeqRepo is constructed on one cache file
MaxGen == 2

\* largest begin / end of a fetch from the FASTA directory
MaxFetchPos == 7

\* total number of calls started where the locks are followed one by one
MaxLockCalls == 3

-----------------------------------------------------------------------------
(* Option and Result. *)

None == [some |-> FALSE]

Some(x) == [some |-> TRUE, v |-> x]

Ok(v) == [ok |-> TRUE, value |-> v]

\* an error: its kind, the alias text it carries and the candidate ids it carries
Err(kind, alias, seqids) == [ok |-> FALSE, kind |-> kind, alias |-> alias, seqids |-> seqids]

NoRet == Err("none", <<>>, <<>>)

-----------------------------------------------------------------------------
(* Characters and strings. *)

\* the characters in use, in ascending byte order
AsciiOrder ==
    <<"%", "-", "0", "1", "2", "3", "4", "5", "6", "7", "8", "9", ":", "?",
      "A", "C", "G", "M", "N", "S", "T", "X", "Y", "_", "x">>

Ord(c) == CHOOSE i \in DOMAIN AsciiOrder : AsciiOrder[i] = c

\* byte-wise comparison of two strings (SQLite's BINARY collation)
RECURSIVE StrLess(_, _)
StrLess(a, b) ==
    IF b = <<>> THEN FALSE
    ELSE IF a = <<>> THEN TRUE
    ELSE IF Head(a) = Head(b) THEN StrLess(Tail(a), Tail(b))
    ELSE Ord(Head(a)) < Ord(Head(b))

Contains(s, c) == \E i \in DOMAIN s : s[i] = c

\* ASCII case folding, as SQLite's LIKE applies it
Fold(c) == IF c = "x" THEN "X" ELSE c

\* SQLite's LIKE: % matches any run, _ any one character, letters fold case
RECURSIVE Like(_, _)
Like(pattern, s) ==
    IF pattern = <<>> THEN s = <<>>
    ELSE IF Head(pattern) = "%"
         THEN Like(Tail(pattern), s) \/ (s /= <<>> /\ Like(pattern, Tail(s)))
    ELSE /\ s /= <<>>
         /\ (Head(pattern) = "_" \/ Fold(Head(pattern)) = Fold(Head(s)))
         /\ Like(Tail(pattern), Tail(s))

Digits == <<"0", "1", "2", "3", "4", "5", "6", "7", "8", "9">>

DigitOf(c) == (CHOOSE i \in DOMAIN Digits : Digits[i] = c) - 1

IsDigit(c) == \E i \in DOMAIN Digits : Digits[i] = c

\* the value of a run of decimal digits
RECURSIVE DigitsValue(_)
DigitsValue(d) ==
    IF d = <<>> THEN 0
    ELSE 10 * DigitsValue(SubSeq(d, 1, Len(d) - 1)) + DigitOf(d[Len(d)])

\* Display of a usize: its decimal digits, most significant first
RECURSIVE FormatUsize(_)
FormatUsize(n) ==
    IF n < 10 THEN <<Digits[n + 1]>>
    ELSE FormatUsize(n \div 10) \o <<Digits[(n % 10) + 1]>>

-----------------------------------------------------------------------------
(* aliases.rs: the alias database. *)

sX == <<"X">>
sY == <<"Y">>
sA == <<"A">>
sM == <<"M">>
sN == <<"N">>
sS1 == <<"S", "1">>
sS2 == <<"S", "2">>
sEmpty == <<>>

\* a row of the seqalias table, read into an AliasRecord
AliasRecord(id, seqid, alias, current, namespace) ==
    [seqalias_id |-> id, seq_id |-> seqid, alias |-> alias,
     is_current |-> current, namespace |-> namespace]

\* the rows a repository may hold; every subset is a repository
RowUniverse ==
    { AliasRecord(1, sS1, sX, TRUE, sN),
      AliasRecord(2, sS1, sX, TRUE, sM),
      AliasRecord(3, sS2, sX, TRUE, sEmpty),
      AliasRecord(4, sS2, sY, FALSE, sN),
      AliasRecord(5, sS1, sS2, TRUE, sN) }

Query(namespace, alias, seqid, current_only) ==
    [namespace |-> namespace, alias |-> alias, seqid |-> seqid,
     current_only |-> current_only]

\* a default Query that does not restrict to current records
QueryDefault_AllRecords == Query(None, None, None, FALSE)

\* impl Default for Query
QueryDefault == Query(None, None, None, TRUE)

\* a comparison operator that is always equality
EqOrLike_AlwaysEq(s) == "="

\* eq_or_like: the comparison operator of a clause
EqOrLike(s) == IF Contains(s, "%") THEN "like" ELSE "="

Clause(col, cmp, param) == [col |-> col, cmp |-> cmp, param |-> param]

\* the WHERE clauses with their positional parameters, in the order pushed
Clauses(query) ==
    (IF query.namespace.some
     THEN <<Clause("namespace", EqOrLike(query.namespace.v), query.namespace.v)>>
     ELSE <<>>)
    \o (IF query.alias.some
        THEN <<Clause("alias", EqOrLike(query.alias.v), query.alias.v)>>
        ELSE <<>>)
    \o (IF query.seqid.some
        THEN <<Clause("alias", EqOrLike(query.seqid.v), query.seqid.v)>>
        ELSE <<>>)
    \o (IF query.current_only
        THEN <<Clause("is_current", "=", TRUE)>>
        ELSE <<>>)

\* one clause evaluated on one row
ClauseHolds(row, c) ==
    IF c.cmp = "like" THEN Like(c.param, row[c.col]) ELSE row[c.col] = c.param

\* the clauses joined by OR instead of AND
Where_AnyClause(row, clauses) ==
    clauses = <<>> \/ \E i \in DOMAIN clauses : ClauseHolds(row, clauses[i])

\* the conjunction of the clauses (no clause: every row)
Where(row, clauses) == \A i \in DOMAIN clauses : ClauseHolds(row, clauses[i])

\* ORDER BY seq_id, namespace, alias (rows equal in all three: by row id)
RowLess(a, b) ==
    IF a.seq_id /= b.seq_id THEN StrLess(a.seq_id, b.seq_id)
    ELSE IF a.namespace /= b.namespace THEN StrLess(a.namespace, b.namespace)
    ELSE IF a.alias /= b.alias THEN StrLess(a.alias, b.alias)
    ELSE a.seqalias_id < b.seqalias_id

\* the rows in the order of their row ids, as a query without ORDER BY scans them
RECURSIVE OrderBy_RowId(_)
OrderBy_RowId(rows) ==
    IF rows = {} THEN <<>>
    ELSE LET first == CHOOSE r \in rows : \A o \in rows : r.seqalias_id <= o.seqalias_id
         IN  <<first>> \o OrderBy_RowId(rows \ {first})

RECURSIVE OrderBy(_)
OrderBy(rows) ==
    IF rows = {} THEN <<>>
    ELSE LET first == CHOOSE r \in rows : \A o \in rows \ {r} : RowLess(r, o)
         IN  <<first>> \o OrderBy(rows \ {first})

\* Aliases::find on a table whose timestamps all parse: the records handed
\* to the callback, in order
Find(rows, query) ==
    OrderBy({r \in rows : Where(r, Clauses(query))})

\* a row of the seqalias table as stored: the column `added` is text
SeqAliasRow(id, seqid, alias, added, current, namespace) ==
    [seqalias_id |-> id, seq_id |-> seqid, alias |-> alias, added |-> added,
     is_current |-> current, namespace |-> namespace]

DaysInMonth(year, month) ==
    IF month \in {4, 6, 9, 11} THEN 30
    ELSE IF month /= 2 THEN 31
    ELSE IF year % 4 = 0 /\ (year % 100 /= 0 \/ year % 400 = 0) THEN 29
    ELSE 28

\* NaiveDateTime::parse_from_str(added, "%Y-%m-%d %H:%M:%S") on a text of the
\* shape SQLite's datetime() writes, YYYY-MM-DD HH:MM:SS; any other text is
\* taken not to parse
ParseTimestamp(text) ==
    IF /\ Len(text) = 19
       /\ text[5] = "-" /\ text[8] = "-" /\ text[11] = " "
       /\ text[14] = ":" /\ text[17] = ":"
       /\ \A i \in (1 .. 19) \ {5, 8, 11, 14, 17} : IsDigit(text[i])
    THEN LET year == DigitsValue(SubSeq(text, 1, 4))
             month == DigitsValue(SubSeq(text, 6, 7))
             day == DigitsValue(SubSeq(text, 9, 10))
             hour == DigitsValue(SubSeq(text, 12, 13))
             minute == DigitsValue(SubSeq(text, 15, 16))
             second == DigitsValue(SubSeq(text, 18, 19))
         IN  IF /\ month \in 1 .. 12
                /\ day \in 1 .. DaysInMonth(year, month)
                /\ hour < 24 /\ minute < 60 /\ second < 60
             THEN Ok(<<year, month, day, hour, minute, second>>)
             ELSE Err("ParseError", text, <<>>)
    ELSE Err("ParseError", text, <<>>)

\* the AliasRecord built from a row whose timestamp parsed
RecordOf(row, added) ==
    [seqalias_id |-> row.seqalias_id, seq_id |-> row.seq_id, alias |-> row.alias,
     added |-> added, is_current |-> row.is_current, namespace |-> row.namespace]

\* lines 169-183: the rows are mapped one by one as the loop advances; the
\* closure panics in expect() on a timestamp that does not parse, which
\* unwinds out of find: `calls` is what the callback was called with before
RECURSIVE Deliver(_)
Deliver(rows) ==
    IF rows = <<>> THEN [calls |-> <<>>, panicked |-> FALSE]
    ELSE LET added == ParseTimestamp(Head(rows).added)
         IN  IF ~added.ok THEN [calls |-> <<>>, panicked |-> TRUE]
             ELSE LET rest == Deliver(Tail(rows))
                  IN  [calls |-> <<Ok(RecordOf(Head(rows), added.value))>> \o rest.calls,
                       panicked |-> rest.panicked]

\* Aliases::find on a table as stored
FindStored(rows, query) ==
    Deliver(OrderBy({r \in rows : Where(r, Clauses(query))}))

-----------------------------------------------------------------------------
(* fasta.rs: the FASTA directory. *)

\* static expected_schema_version
expected_schema_version == 1

\* a run of digits without its leading zeros
RECURSIVE StripZeros(_)
StripZeros(d) == IF Len(d) > 1 /\ Head(d) = "0" THEN StripZeros(Tail(d)) ELSE d

\* u32::MAX in decimal
U32MaxDigits == <<"4", "2", "9", "4", "9", "6", "7", "2", "9", "5">>

\* the number does not fit 32 bits (numerals of one length order as strings)
ExceedsU32(d) ==
    \/ Len(StripZeros(d)) > Len(U32MaxDigits)
    \/ /\ Len(StripZeros(d)) = Len(U32MaxDigits)
       /\ StrLess(U32MaxDigits, StripZeros(d))

\* str::parse::<u32>: an optional '+', then decimal digits, the value in 32
\* bits (the texts parsed here have at most nine digits, or overflow)
ParseU32(text) ==
    LET digits == IF text /= <<>> /\ Head(text) = "+" THEN Tail(text) ELSE text
    IN  IF digits = <<>> \/ \E i \in DOMAIN digits : ~IsDigit(digits[i])
        THEN Err("ParseIntError", text, <<>>)
        ELSE IF ExceedsU32(digits) THEN Err("ParseIntError", text, <<>>)
        ELSE Ok(DigitsValue(digits))

\* FastaDir::fetch_schema_version: query_row fails without a row; the value
\* is unwrapped, so a text that is no u32 panics
FetchSchemaVersion(value) ==
    IF ~value.some THEN Err("QueryReturnedNoRows", <<>>, <<>>)
    ELSE IF ~ParseU32(value.v).ok THEN Err("panic", value.v, <<>>)
    ELSE ParseU32(value.v)

\* the anyhow! message of lines 110-115: its literal parts and the two
\* numbers as they are displayed
UpgradeRequired(found, expected) ==
    [ok |-> FALSE, kind |-> "anyhow",
     message |-> <<"Upgrade required: Database schema version is ", FormatUsize(found),
                   " and the code expects ", FormatUsize(expected)>>]

\* a FastaDir::new that does not compare the version
FastaDirNew_NoCheck(value) ==
    LET schema_version == FetchSchemaVersion(value)
    IN  IF ~schema_version.ok THEN schema_version
        ELSE Ok([schema_version |-> schema_version.value])

\* FastaDir::new, on the value of the 'schema version' row (None: no row)
FastaDirNew(value) ==
    LET schema_version == FetchSchemaVersion(value)
    IN  IF ~schema_version.ok THEN schema_version
        ELSE IF schema_version.value /= expected_schema_version
             THEN UpgradeRequired(schema_version.value, expected_schema_version)
        ELSE Ok([schema_version |-> schema_version.value])

\* the seqinfo table together with the stored sequence of each row
SeqInfoTable ==
    { [seq_id |-> sS1, len |-> Len(<<"A", "C", "G", "T">>), seq |-> <<"A", "C", "G", "T">>],
      [seq_id |-> sS2, len |-> Len(<<"T", "T", "G", "A", "C">>), seq |-> <<"T", "T", "G", "A", "C">>] }

\* FastaDir::fetch_seqinfo: query_row fails when no row has the id
FetchSeqinfo(seq_id) ==
    LET rows == {r \in SeqInfoTable : r.seq_id = seq_id}
    IN  IF rows = {} THEN Err("QueryReturnedNoRows", <<>>, <<seq_id>>)
        ELSE Ok(CHOOSE r \in rows : TRUE)

Min(a, b) == IF a <= b THEN a ELSE b

\* fai_reader.query on the region start..=end (1-based, inclusive): the
\* bases at these positions (none when start = end + 1); a region that ends
\* beyond the record is not served
FaiQuery(seqinfo, start, end) ==
    IF end > seqinfo.len THEN Err("FaiQuery", <<>>, <<seqinfo.seq_id>>)
    ELSE Ok(SubSeq(seqinfo.seq, start, end))

\* the region without the clamp of `end` to the recorded length
FetchRegion_NoClamp(seqinfo, begin, end) ==
    LET start == IF begin.some THEN begin.v + 1 ELSE 1
        stop == IF end.some THEN end.v ELSE seqinfo.len
    IN  IF start = 0 \/ stop = 0
        THEN Err("ConvertPosition", <<>>, <<seqinfo.seq_id>>)
        ELSE Ok([start |-> start, end |-> stop])

\* lines 196-201: the region start..=end asked of the reader, or the error
\* of Position::try_from (0 is no position)
FetchRegion(seqinfo, begin, end) ==
    LET start == IF begin.some THEN begin.v + 1 ELSE 1
        stop == IF end.some THEN Min(end.v, seqinfo.len)
                ELSE seqinfo.len
    IN  IF start = 0 \/ stop = 0
        THEN Err("ConvertPosition", <<>>, <<seqinfo.seq_id>>)
        ELSE Ok([start |-> start, end |-> stop])

\* FastaDir::fetch_sequence_part
FastaDirFetch(seq_id, begin, end) ==
    LET seqinfo == FetchSeqinfo(seq_id)
    IN  IF ~seqinfo.ok THEN seqinfo
        ELSE LET region == FetchRegion(seqinfo.value, begin, end)
             IN  IF ~region.ok THEN region
                 ELSE FaiQuery(seqinfo.value, region.value.start, region.value.end)

-----------------------------------------------------------------------------
(* repo.rs: the repository facade. *)

Alias(value, namespace) == [kind |-> "Alias", value |-> value, namespace |-> namespace]

SeqId(seqid) == [kind |-> "SeqId", value |-> seqid]

Request(aos, begin, end) == [aos |-> aos, begin |-> begin, end |-> end]

\* SeqRepo::new: AliasDb::new opens the connection, FastaDir::new may fail
SeqRepoNew(value) ==
    LET fasta_dir == FastaDirNew(value)
    IN  IF ~fasta_dir.ok THEN fasta_dir
        ELSE Ok([fasta_dir |-> fasta_dir.value])

\* the Query built for AliasOrSeqId::Alias
AliasQuery(aos) ==
    [QueryDefault EXCEPT !.namespace = aos.namespace, !.alias = Some(aos.value)]

\* the seq_id of each record found, in the order pushed
RECURSIVE SeqIdsOf(_)
SeqIdsOf(records) ==
    IF records = <<>> THEN <<>>
    ELSE <<Head(records).seq_id>> \o SeqIdsOf(Tail(records))

\* the `seq_ids` match: Ok(ids), or the error returned early
Resolve(rows, aos) ==
    IF aos.kind = "Alias"
    THEN LET seq_ids == SeqIdsOf(Find(rows, AliasQuery(aos)))
         IN  IF seq_ids = <<>> THEN Err("AliasDbResolve", aos.value, <<>>)
             ELSE IF Len(seq_ids) > 1
                  THEN Err("AliasDbResolutionAmbiguous", aos.value, seq_ids)
             ELSE Ok(seq_ids)
    ELSE Ok(<<aos.value>>)

\* SeqRepo::fetch_sequence_part: the result, and the calls made to fasta_dir
SeqRepoFetch(rows, aos, begin, end) ==
    LET seq_ids == Resolve(rows, aos)
    IN  IF ~seq_ids.ok THEN [ret |-> seq_ids, fasta_calls |-> <<>>]
        ELSE [ret |-> FastaDirFetch(seq_ids.value[1], begin, end),
              fasta_calls |-> <<[seq_id |-> seq_ids.value[1], begin |-> begin, end |-> end]>>]

-----------------------------------------------------------------------------
(* cached.rs: the cache key. *)

\* build_key without the test for an empty namespace
BuildKey_NoEmptyCheck(aos, begin, end) ==
    LET name ==
            IF aos.kind = "Alias" /\ aos.namespace.some
            THEN aos.namespace.v \o <<":">> \o aos.value
            ELSE aos.value
        suffix ==
            IF ~begin.some /\ ~end.some THEN <<>>
            ELSE IF ~begin.some THEN <<"?", "-">> \o FormatUsize(end.v)
            ELSE IF ~end.some THEN FormatUsize(begin.v) \o <<"-", "?">>
            ELSE FormatUsize(begin.v) \o <<"-">> \o FormatUsize(end.v)
    IN  IF suffix = <<>> THEN name ELSE name \o <<":">> \o suffix

\* build_key
BuildKey(aos, begin, end) ==
    LET name ==
            IF aos.kind = "Alias"
            THEN IF aos.namespace.some
                 THEN IF aos.namespace.v = <<>>
                      THEN aos.value
                      ELSE aos.namespace.v \o <<":">> \o aos.value
                 ELSE aos.value
            ELSE aos.value
        suffix ==
            IF ~begin.some /\ ~end.some THEN <<>>
            ELSE IF ~begin.some THEN <<"?", "-">> \o FormatUsize(end.v)
            ELSE IF ~end.some THEN FormatUsize(begin.v) \o <<"-", "?">>
            ELSE FormatUsize(begin.v) \o <<"-">> \o FormatUsize(end.v)
    IN  IF suffix = <<>> THEN name ELSE name \o <<":">> \o suffix

-----------------------------------------------------------------------------
(* cached.rs: CacheWritingSeqRepo. *)

Threads == 1 .. NumThreads

EmptyMap == [k \in {} |-> <<>>]

\* a lookup that never finds the key
CacheGet_AlwaysMiss(map, key) == None

\* HashMap::get
CacheGet(map, key) == IF key \in DOMAIN map THEN Some(map[key]) ELSE None

\* HashMap::insert
CacheInsert(map, key, value) ==
    [k \in DOMAIN map \cup {key} |-> IF k = key THEN value ELSE map[k]]

\* the record handed to write_record
FastaRecord(key, value) == [name |-> key, sequence |-> value]

KeyOf(r) == BuildKey(r.aos, r.begin, r.end)

\* a completed call: its arguments, what it returned, whether it appended
Call(r, result, appended) == [args |-> r, ret |-> result, appended |-> appended]

TotalCalls == Len(hist) + Cardinality({t \in Threads : pc[t] /= "idle"})

\* the requests made of the cache
CacheRequests ==
    { Request(Alias(sX, None), None, None),
      Request(Alias(sX, Some(sEmpty)), None, None),
      Request(Alias(sX, Some(sN)), None, Some(2)),
      Request(Alias(sY, None), None, None),
      Request(SeqId(sS1), Some(0), Some(2)),
      Request(SeqId(sX), None, None) }

\* the repositories the cache is run on
CacheFixtures == { RowUniverse, {r \in RowUniverse : r.seqalias_id = 1} }

NoRequest == Request(SeqId(<<>>), None, None)

\* lines 60-69: build the key, look it up under the cache lock, return a hit
Begin(t, r) ==
    /\ pc[t] = "idle"
    /\ TotalCalls < MaxCalls
    /\ req' = [req EXCEPT ![t] = r]
    /\ ncalls' = [ncalls EXCEPT ![t] = @ + 1]
    /\ LET hit == CacheGet(cache, KeyOf(r))
       IN  IF hit.some
           THEN /\ ret' = [ret EXCEPT ![t] = Ok(hit.v)]
                /\ hist' = Append(hist, Call(r, Ok(hit.v), FALSE))
                /\ pc' = pc
           ELSE /\ pc' = [pc EXCEPT ![t] = "miss"]
                /\ UNCHANGED <<ret, hist>>
    /\ UNCHANGED <<db, cache, file, val, repoCalls, op, arg, out, gen, reading, meta, store, cacheLock, writerLock, lines>>

\* line 71: ask the wrapped SeqRepo, holding no lock; `?` returns its error
Compute(t) ==
    /\ pc[t] = "miss"
    /\ repoCalls' = repoCalls + 1
    /\ LET res == SeqRepoFetch(db, req[t].aos, req[t].begin, req[t].end).ret
       IN  IF res.ok
           THEN /\ val' = [val EXCEPT ![t] = res.value]
                /\ pc' = [pc EXCEPT ![t] = "computed"]
                /\ UNCHANGED <<ret, hist>>
           ELSE /\ ret' = [ret EXCEPT ![t] = res]
                /\ hist' = Append(hist, Call(req[t], res, FALSE))
                /\ pc' = [pc EXCEPT ![t] = "idle"]
                /\ val' = val
    /\ UNCHANGED <<db, cache, file, req, ncalls, op, arg, out, gen, reading, meta, store, cacheLock, writerLock, lines>>

\* lines 72-76: insert under the cache lock
Insert(t) ==
    /\ pc[t] = "computed"
    /\ cache' = CacheInsert(cache, KeyOf(req[t]), val[t])
    /\ pc' = [pc EXCEPT ![t] = "inserted"]
    /\ UNCHANGED <<db, file, req, val, ret, ncalls, repoCalls, hist, op, arg, out, gen, reading, meta, store, cacheLock, writerLock, lines>>

\* lines 77-85: write_record under the writer lock succeeds
WriteOk(t) ==
    /\ pc[t] = "inserted"
    /\ file' = Append(file, FastaRecord(KeyOf(req[t]), val[t]))
    /\ ret' = [ret EXCEPT ![t] = Ok(val[t])]
    /\ hist' = Append(hist, Call(req[t], Ok(val[t]), TRUE))
    /\ pc' = [pc EXCEPT ![t] = "idle"]
    /\ UNCHANGED <<db, cache, req, val, ncalls, repoCalls, op, arg, out, gen, reading, meta, store, cacheLock, writerLock, lines>>

\* lines 77-84: write_record fails with an I/O error, mapped to SeqSepoCacheWrite
WriteFail(t) ==
    /\ pc[t] = "inserted"
    /\ ret' = [ret EXCEPT ![t] = Err("SeqSepoCacheWrite", <<>>, <<>>)]
    /\ hist' = Append(hist, Call(req[t], Err("SeqSepoCacheWrite", <<>>, <<>>), FALSE))
    /\ pc' = [pc EXCEPT ![t] = "idle"]
    /\ UNCHANGED <<db, cache, file, req, val, ncalls, repoCalls, op, arg, out, gen, reading, meta, store, cacheLock, writerLock, lines>>

\* CacheWritingSeqRepo::new on a path that does not exist yet
InitCache ==
    /\ cache = EmptyMap
    /\ file = <<>>
    /\ pc = [t \in Threads |-> "idle"]
    /\ req = [t \in Threads |-> NoRequest]
    /\ val = [t \in Threads |-> <<>>]
    /\ ret = [t \in Threads |-> NoRet]
    /\ ncalls = [t \in Threads |-> 0]
    /\ repoCalls = 0
    /\ hist = <<>>
    /\ gen = 1
    /\ reading = None
    /\ meta = Some(<<"1">>)
    /\ store = Some(SeqRepoNew(meta))
    /\ cacheLock = 0
    /\ writerLock = 0
    /\ lines = <<>>

InitPure ==
    /\ op = "none"
    /\ arg = NoRequest
    /\ out = <<>>

Init ==
    /\ db \in CacheFixtures
    /\ InitCache
    /\ InitPure

Next ==
    \E t \in Threads :
        \/ \E r \in CacheRequests : Begin(t, r)
        \/ Compute(t)
        \/ Insert(t)
        \/ WriteOk(t)
        \/ WriteFail(t)

\* several threads sharing one CacheWritingSeqRepo
Spec == Init /\ [][Next]_vars

NextSingle ==
    \/ \E r \in CacheRequests : Begin(1, r)
    \/ Compute(1)
    \/ Insert(1)
    \/ WriteOk(1)
    \/ WriteFail(1)

\* one caller of a CacheWritingSeqRepo
SpecSingle == Init /\ [][NextSingle]_vars

-----------------------------------------------------------------------------
(* cached.rs: construction on an existing cache file, CacheReadingSeqRepo. *)

\* a read_cache that loads nothing
ReadCache_Empty(records) == EmptyMap

\* CacheReadingSeqRepo::read_cache: every record of the file inserted under
\* its name, in file order (a later record of the same name replaces)
RECURSIVE ReadCache(_)
ReadCache(records) ==
    IF records = <<>> THEN EmptyMap
    ELSE LET last == records[Len(records)]
         IN  CacheInsert(ReadCache(SubSeq(records, 1, Len(records) - 1)),
                         last.name, last.sequence)

\* cache files left by earlier runs: none of a key, one record, the two
\* records of two threads that both missed, two records of one key written
\* while the alias moved, a record of a range
PersistedFiles ==
    { <<>>,
      <<FastaRecord(sX, <<"A", "C", "G", "T">>)>>,
      <<FastaRecord(sX, <<"A", "C", "G", "T">>), FastaRecord(sX, <<"A", "C", "G", "T">>)>>,
      <<FastaRecord(sX, <<"A", "C", "G", "T">>), FastaRecord(sX, <<"T", "T", "G", "A", "C">>)>>,
      <<FastaRecord(<<"S", "1", ":", "0", "-", "2">>, <<"A", "C">>)>> }

\* the cache is dropped (its writer flushed) and CacheWritingSeqRepo::new is
\* called on the same path: the file exists, so read_cache fills the index,
\* and the file is opened for appending
Restart ==
    /\ \A t \in Threads : pc[t] = "idle"
    /\ gen < MaxGen
    /\ gen' = gen + 1
    /\ cache' = ReadCache(file)
    /\ UNCHANGED <<db, file, pc, req, val, ret, ncalls, repoCalls, hist, op, arg, out, reading, meta, store, cacheLock, writerLock, lines>>

\* CacheWritingSeqRepo::new on a path where a cache file exists
InitRestart ==
    /\ db \in CacheFixtures
    /\ file \in PersistedFiles
    /\ cache = ReadCache(file)
    /\ pc = [t \in Threads |-> "idle"]
    /\ req = [t \in Threads |-> NoRequest]
    /\ val = [t \in Threads |-> <<>>]
    /\ ret = [t \in Threads |-> NoRet]
    /\ ncalls = [t \in Threads |-> 0]
    /\ repoCalls = 0
    /\ hist = <<>>
    /\ gen = 1
    /\ reading = None
    /\ meta = Some(<<"1">>)
    /\ store = Some(SeqRepoNew(meta))
    /\ cacheLock = 0
    /\ writerLock = 0
    /\ lines = <<>>
    /\ InitPure

NextRestart ==
    \/ NextSingle
    \/ Restart

\* one caller of a write-back cache that is dropped and constructed again
SpecRestart == InitRestart /\ [][NextRestart]_vars

\* a read-only fetch whose error carries the alias text instead of the key
ReadingFetch_AliasInError(map, aos, begin, end) ==
    LET hit == CacheGet(map, BuildKey(aos, begin, end))
    IN  IF hit.some THEN Ok(hit.v)
        ELSE Err("SeqSepoCacheKey", aos.value, <<>>)

\* CacheReadingSeqRepo::fetch_sequence_part (the error carries the key)
ReadingFetch(map, aos, begin, end) ==
    LET hit == CacheGet(map, BuildKey(aos, begin, end))
    IN  IF hit.some THEN Ok(hit.v)
        ELSE Err("SeqSepoCacheKey", BuildKey(aos, begin, end), <<>>)

\* CacheReadingSeqRepo::new on the file the write-back cache has left
NewReading ==
    /\ reading = None
    /\ \A t \in Threads : pc[t] = "idle"
    /\ reading' = Some(ReadCache(file))
    /\ UNCHANGED <<db, cache, file, pc, req, val, ret, ncalls, repoCalls, hist, op, arg, out, gen, meta, store, cacheLock, writerLock, lines>>

\* a fetch through the CacheReadingSeqRepo (&self: nothing is written)
ReadingFetchStep(r) ==
    /\ reading.some
    /\ op' = "reading_fetch"
    /\ arg' = r
    /\ out' = ReadingFetch(reading.v, r.aos, r.begin, r.end)
    /\ UNCHANGED <<db, cache, file, pc, req, val, ret, ncalls, repoCalls, hist, gen, reading, meta, store, cacheLock, writerLock, lines>>

NextReading ==
    \/ reading = None /\ NextSingle
    \/ NewReading
    \/ \E r \in CacheRequests : ReadingFetchStep(r)

\* a write-back run of one caller, then a read-only cache on its file
SpecReading == Init /\ [][NextReading]_vars

-----------------------------------------------------------------------------
(* cached.rs: fetch_sequence_part with each lock and each line followed. *)

\* requests of which two have one key and different values, and one fails
LockRequests ==
    { Request(SeqId(sS2), None, None),
      Request(Alias(sS2, None), None, None),
      Request(SeqId(sX), None, None) }

\* a Mutex that does not exclude
MutexFree_Always(holder) == TRUE

\* Mutex::lock returns only while no thread holds the mutex
MutexFree(holder) == holder = 0

\* a line written by thread t: the definition line or a sequence line
Line(t, part, text) == [by |-> t, part |-> part, text |-> text]

\* line 60: a call starts and builds its key
FetchStart(t, r) ==
    /\ pc[t] = "idle"
    /\ TotalCalls < MaxLockCalls
    /\ req' = [req EXCEPT ![t] = r]
    /\ ncalls' = [ncalls EXCEPT ![t] = @ + 1]
    /\ pc' = [pc EXCEPT ![t] = "lock_get"]
    /\ UNCHANGED <<db, cache, file, val, ret, repoCalls, hist, op, arg, out, gen, reading,
                   meta, store, cacheLock, writerLock, lines>>

\* lines 61-64: self.cache.lock()
LockCacheForGet(t) ==
    /\ pc[t] = "lock_get"
    /\ MutexFree(cacheLock)
    /\ cacheLock' = t
    /\ pc' = [pc EXCEPT ![t] = "get"]
    /\ UNCHANGED <<db, cache, file, req, val, ret, ncalls, repoCalls, hist, op, arg, out, gen,
                   reading, meta, store, writerLock, lines>>

\* the lookup with its guard kept over the rest of the call
GetAndUnlock_KeepGuard(t) ==
    /\ pc[t] = "get"
    /\ LET hit == CacheGet(cache, KeyOf(req[t]))
       IN  IF hit.some
           THEN /\ ret' = [ret EXCEPT ![t] = Ok(hit.v)]
                /\ hist' = Append(hist, Call(req[t], Ok(hit.v), FALSE))
                /\ pc' = [pc EXCEPT ![t] = "idle"]
                /\ cacheLock' = 0
           ELSE /\ pc' = [pc EXCEPT ![t] = "miss"]
                /\ UNCHANGED <<ret, hist, cacheLock>>
    /\ UNCHANGED <<db, cache, file, req, val, ncalls, repoCalls, op, arg, out, gen, reading,
                   meta, store, writerLock, lines>>

\* lines 65-69: get(&key); a hit returns; the guard is dropped either way
GetAndUnlock(t) ==
    /\ pc[t] = "get"
    /\ cacheLock' = 0
    /\ LET hit == CacheGet(cache, KeyOf(req[t]))
       IN  IF hit.some
           THEN /\ ret' = [ret EXCEPT ![t] = Ok(hit.v)]
                /\ hist' = Append(hist, Call(req[t], Ok(hit.v), FALSE))
                /\ pc' = [pc EXCEPT ![t] = "idle"]
           ELSE /\ pc' = [pc EXCEPT ![t] = "miss"]
                /\ UNCHANGED <<ret, hist>>
    /\ UNCHANGED <<db, cache, file, req, val, ncalls, repoCalls, op, arg, out, gen, reading,
                   meta, store, writerLock, lines>>

\* lines 72-75: self.cache.lock()
LockCacheForInsert(t) ==
    /\ pc[t] = "computed"
    /\ MutexFree(cacheLock)
    /\ cacheLock' = t
    /\ pc' = [pc EXCEPT ![t] = "insert"]
    /\ UNCHANGED <<db, cache, file, req, val, ret, ncalls, repoCalls, hist, op, arg, out, gen,
                   reading, meta, store, writerLock, lines>>

\* line 76: insert(key, value); the guard is dropped with the statement
InsertAndUnlock(t) ==
    /\ pc[t] = "insert"
    /\ cache' = CacheInsert(cache, KeyOf(req[t]), val[t])
    /\ cacheLock' = 0
    /\ pc' = [pc EXCEPT ![t] = "lock_writer"]
    /\ UNCHANGED <<db, file, req, val, ret, ncalls, repoCalls, hist, op, arg, out, gen,
                   reading, meta, store, writerLock, lines>>

\* lines 77-79: self.writer.lock()
LockWriter(t) ==
    /\ pc[t] = "lock_writer"
    /\ MutexFree(writerLock)
    /\ writerLock' = t
    /\ pc' = [pc EXCEPT ![t] = "write_definition"]
    /\ UNCHANGED <<db, cache, file, req, val, ret, ncalls, repoCalls, hist, op, arg, out, gen,
                   reading, meta, store, cacheLock, lines>>

\* lines 80-83: write_record writes the definition line, ">" and the key
WriteDefinition(t) ==
    /\ pc[t] = "write_definition"
    /\ lines' = Append(lines, Line(t, "definition", <<">">> \o KeyOf(req[t])))
    /\ pc' = [pc EXCEPT ![t] = "write_sequence"]
    /\ UNCHANGED <<db, cache, file, req, val, ret, ncalls, repoCalls, hist, op, arg, out, gen,
                   reading, meta, store, cacheLock, writerLock>>

\* lines 80-85: write_record writes the sequence (one line: the sequences
\* here are shorter than a line), the guard is dropped, the value returned
WriteSequenceAndUnlock(t) ==
    /\ pc[t] = "write_sequence"
    /\ lines' = Append(lines, Line(t, "sequence", val[t]))
    /\ file' = Append(file, FastaRecord(KeyOf(req[t]), val[t]))
    /\ writerLock' = 0
    /\ ret' = [ret EXCEPT ![t] = Ok(val[t])]
    /\ hist' = Append(hist, Call(req[t], Ok(val[t]), TRUE))
    /\ pc' = [pc EXCEPT ![t] = "idle"]
    /\ UNCHANGED <<db, cache, req, val, ncalls, repoCalls, op, arg, out, gen, reading, meta,
                   store, cacheLock>>

\* lines 80-84: write_record fails (having written nothing, as in WriteFail);
\* `?` returns SeqSepoCacheWrite and the guard is dropped
WriteRecordFails(t) ==
    /\ pc[t] = "write_definition"
    /\ writerLock' = 0
    /\ ret' = [ret EXCEPT ![t] = Err("SeqSepoCacheWrite", <<>>, <<>>)]
    /\ hist' = Append(hist, Call(req[t], Err("SeqSepoCacheWrite", <<>>, <<>>), FALSE))
    /\ pc' = [pc EXCEPT ![t] = "idle"]
    /\ UNCHANGED <<db, cache, file, req, val, ncalls, repoCalls, op, arg, out, gen, reading,
                   meta, store, cacheLock, lines>>

\* the steps of a started call that are the cache's own: every one but the
\* call of the wrapped facade
Proceed(t) ==
    \/ LockCacheForGet(t)
    \/ GetAndUnlock(t)
    \/ LockCacheForInsert(t)
    \/ InsertAndUnlock(t)
    \/ LockWriter(t)
    \/ WriteDefinition(t)
    \/ WriteSequenceAndUnlock(t)

InitLocks ==
    /\ db = RowUniverse
    /\ InitCache
    /\ InitPure

NextLocks ==
    \E t \in Threads :
        \/ \E r \in LockRequests : FetchStart(t, r)
        \/ Proceed(t)
        \/ Compute(t)
        \/ WriteRecordFails(t)

\* threads sharing one CacheWritingSeqRepo, lock by lock
SpecLocks == InitLocks /\ [][NextLocks]_vars

\* the same, every thread that can take a step of its own eventually taking
\* one: a running thread executes its next statement, and a lock that stays
\* free is acquired
SpecLocksFair == SpecLocks /\ \A t \in Threads : WF_vars(Proceed(t))

-----------------------------------------------------------------------------
(* The pure operations, applied to inputs drawn from bounded sets. *)

Positions == {None} \cup {Some(n) : n \in 0 .. MaxPos}

KeyTexts == {sX, sA, sS1, <<"A", ":", "X">>, <<"X", ":", "0", "-", "4">>}

KeyNamespaces == {None, Some(sEmpty), Some(sA), Some(sN)}

\* the requests whose key is built
KeyRequests ==
    { Request(aos, b, e) :
        aos \in {Alias(v, n) : v \in KeyTexts, n \in KeyNamespaces}
                \cup {SeqId(v) : v \in KeyTexts},
        b \in Positions, e \in Positions }

BuildKeyStep ==
    /\ op = "to_build_key"
    /\ op' = "build_key"
    /\ out' = BuildKey(arg.aos, arg.begin, arg.end)
    /\ UNCHANGED <<arg, db, cache, file, pc, req, val, ret, ncalls, repoCalls, hist, gen, reading, meta, store, cacheLock, writerLock, lines>>

InitKey ==
    /\ db = {}
    /\ InitCache
    /\ op = "to_build_key"
    /\ arg \in KeyRequests
    /\ out = <<>>

\* build_key applied to every request
SpecKey == InitKey /\ [][BuildKeyStep]_vars

\* a call of FastaDir::fetch_sequence_part
FastaRequest(seq_id, begin, end) == [seq_id |-> seq_id, begin |-> begin, end |-> end]

FetchPositions == {None} \cup {Some(n) : n \in 0 .. MaxFetchPos}

\* the fetches made of the FASTA directory: two known ids and an unknown one
FastaRequests ==
    { FastaRequest(id, b, e) : id \in {sS1, sS2, sX}, b \in FetchPositions, e \in FetchPositions }

FastaFetchStep ==
    /\ op = "to_fasta_fetch"
    /\ op' = "fasta_fetch"
    /\ out' = FastaDirFetch(arg.seq_id, arg.begin, arg.end)
    /\ UNCHANGED <<arg, db, cache, file, pc, req, val, ret, ncalls, repoCalls, hist, gen, reading, meta, store, cacheLock, writerLock, lines>>

InitFasta ==
    /\ db = {}
    /\ InitCache
    /\ op = "to_fasta_fetch"
    /\ arg \in FastaRequests
    /\ out = <<>>

\* FastaDir::fetch_sequence_part applied to every request
SpecFasta == InitFasta /\ [][FastaFetchStep]_vars

AliasFilters == {sX, sY, sS1, sS2, <<"%">>, <<"x">>, <<"x", "%">>, <<"_">>, <<"S", "_", "%">>}

NamespaceFilters == {sEmpty, sN, sM, <<"%">>}

SeqIdFilters == {sS1, sS2, sX, <<"%">>, <<"S", "%">>}

Option(S) == {None} \cup {Some(x) : x \in S}

\* the queries made of Aliases::find
Queries ==
    { Query(n, a, s, c) :
        n \in Option(NamespaceFilters), a \in Option(AliasFilters),
        s \in Option(SeqIdFilters), c \in BOOLEAN }

\* the requests made of the facade
FacadeRequests ==
    { Request(aos, b, e) :
        aos \in {Alias(v, n) : v \in AliasFilters, n \in Option(NamespaceFilters)}
                \cup {SeqId(v) : v \in {sS1, sS2, sX}},
        b \in {None, Some(0), Some(2)}, e \in {None, Some(2), Some(9)} }

FindStep ==
    /\ op = "to_find"
    /\ op' = "find"
    /\ out' = Find(db, arg)
    /\ UNCHANGED <<arg, db, cache, file, pc, req, val, ret, ncalls, repoCalls, hist, gen, reading, meta, store, cacheLock, writerLock, lines>>

FetchStep ==
    /\ op = "to_fetch"
    /\ op' = "fetch"
    /\ out' = SeqRepoFetch(db, arg.aos, arg.begin, arg.end)
    /\ UNCHANGED <<arg, db, cache, file, pc, req, val, ret, ncalls, repoCalls, hist, gen, reading, meta, store, cacheLock, writerLock, lines>>

InitAliases ==
    /\ db \in SUBSET RowUniverse
    /\ InitCache
    /\ \/ op = "to_find" /\ arg \in Queries
       \/ op = "to_fetch" /\ arg \in FacadeRequests
    /\ out = <<>>

NextAliases == FindStep \/ FetchStep

\* Aliases::find and SeqRepo::fetch_sequence_part on every repository
SpecAliases == InitAliases /\ [][NextAliases]_vars

\* texts of the column `added`: as datetime() writes it, in ISO 8601 with a
\* 'T', a date alone, and a month that does not exist
tsWritten == <<"2", "0", "2", "0", "-", "0", "1", "-", "0", "2", " ", "0", "3", ":", "0", "4", ":", "0", "5">>

tsIso == <<"2", "0", "2", "0", "-", "0", "1", "-", "0", "2", "T", "0", "3", ":", "0", "4", ":", "0", "5">>

tsDate == <<"2", "0", "2", "0", "-", "0", "1", "-", "0", "2">>

tsMonth == <<"2", "0", "2", "0", "-", "1", "3", "-", "0", "2", " ", "0", "3", ":", "0", "4", ":", "0", "5">>

\* the stored rows a table may hold; sorted, they come in the order 5, 1, 2, 3, 4
StoredRowUniverse ==
    { SeqAliasRow(1, sS1, sX, tsWritten, TRUE, sN),
      SeqAliasRow(2, sS1, sY, tsIso, TRUE, sN),
      SeqAliasRow(3, sS2, sX, tsWritten, TRUE, sM),
      SeqAliasRow(4, sS2, sY, tsDate, FALSE, sN),
      SeqAliasRow(5, sS1, sA, tsMonth, TRUE, sM) }

\* the queries made of a stored table
StoredQueries ==
    { Query(n, a, None, c) :
        n \in {None, Some(sN), Some(<<"%">>)}, a \in {None, Some(sX), Some(<<"%">>)},
        c \in BOOLEAN }

FindStoredStep ==
    /\ op = "to_find_stored"
    /\ op' = "find_stored"
    /\ out' = FindStored(db, arg)
    /\ UNCHANGED <<arg, db, cache, file, pc, req, val, ret, ncalls, repoCalls, hist, gen, reading, meta, store, cacheLock, writerLock, lines>>

InitStored ==
    /\ db \in SUBSET StoredRowUniverse
    /\ InitCache
    /\ op = "to_find_stored"
    /\ arg \in StoredQueries
    /\ out = <<>>

\* Aliases::find on every table of stored rows
SpecStored == InitStored /\ [][FindStoredStep]_vars

\* values of the 'schema version' row of the meta table (None: no such row)
MetaValues ==
    { None, Some(<<"1">>), Some(<<"2">>), Some(<<"0">>), Some(<<"1", "0">>),
      Some(<<"0", "1">>), Some(<<"+", "1">>), Some(<<"x">>), Some(<<>>),
      Some(<<"4", "2", "9", "4", "9", "6", "7", "2", "9", "6">>) }

\* SeqRepo::new is called
SeqRepoNewStep ==
    /\ ~store.some
    /\ store' = Some(SeqRepoNew(meta))
    /\ UNCHANGED <<db, cache, file, pc, req, val, ret, ncalls, repoCalls, hist, op, arg, out, gen, reading, meta, cacheLock, writerLock, lines>>

\* a fetch from the FASTA directory of the SeqRepo that was returned
StoreFetchStep(r) ==
    /\ store.some
    /\ store.v.ok
    /\ op = "none"
    /\ op' = "fasta_fetch"
    /\ arg' = r
    /\ out' = FastaDirFetch(r.seq_id, r.begin, r.end)
    /\ UNCHANGED <<db, cache, file, pc, req, val, ret, ncalls, repoCalls, hist, gen, reading, meta, store, cacheLock, writerLock, lines>>

InitSchema ==
    /\ db = {}
    /\ cache = EmptyMap
    /\ file = <<>>
    /\ pc = [t \in Threads |-> "idle"]
    /\ req = [t \in Threads |-> NoRequest]
    /\ val = [t \in Threads |-> <<>>]
    /\ ret = [t \in Threads |-> NoRet]
    /\ ncalls = [t \in Threads |-> 0]
    /\ repoCalls = 0
    /\ hist = <<>>
    /\ gen = 1
    /\ reading = None
    /\ meta \in MetaValues
    /\ store = None
    /\ cacheLock = 0
    /\ writerLock = 0
    /\ lines = <<>>
    /\ InitPure

NextSchema ==
    \/ SeqRepoNewStep
    \/ \E r \in FastaRequests : StoreFetchStep(r)

\* SeqRepo::new on every meta table, then a fetch if a SeqRepo was returned
SpecSchema == InitSchema /\ [][NextSchema]_vars

-----------------------------------------------------------------------------
(* What the claims are stated with. *)

\* the completed calls made with the arguments r
CallsWith(r) == {i \in DOMAIN hist : hist[i].args = r}

\* the number of records of the file named key
RecordCount(key) == Cardinality({i \in DOMAIN file : file[i].name = key})

\* a filter value against a column value: a pattern if it holds '%', else equality
FilterMatches(filter, text) ==
    IF Contains(filter, "%") THEN Like(filter, text) ELSE text = filter

\* the current rows an {alias, namespace?} request selects
CurrentMatches(rows, aos) ==
    { r \in rows :
        /\ r.is_current
        /\ FilterMatches(aos.value, r.alias)
        /\ aos.namespace.some => FilterMatches(aos.namespace.v, r.namespace) }

\* the rows (current or not) an {alias, namespace?} request names
AnyMatches(rows, aos) ==
    { r \in rows :
        /\ FilterMatches(aos.value, r.alias)
        /\ aos.namespace.some => FilterMatches(aos.namespace.v, r.namespace) }

\* the rows a Query selects when its seqid filter constrains the sequence id
Selected(rows, query) ==
    { r \in rows :
        /\ query.namespace.some => FilterMatches(query.namespace.v, r.namespace)
        /\ query.alias.some => FilterMatches(query.alias.v, r.alias)
        /\ query.seqid.some => FilterMatches(query.seqid.v, r.seq_id)
        /\ query.current_only => r.is_current }

Range(seq) == {seq[i] : i \in DOMAIN seq}

\* the value of a string of decimal digits
RECURSIVE DecimalValue(_)
DecimalValue(d) ==
    IF d = <<>> THEN 0
    ELSE 10 * DecimalValue(SubSeq(d, 1, Len(d) - 1)) + (Ord(d[Len(d)]) - Ord("0"))

DigitSet == {"0", "1", "2", "3", "4", "5", "6", "7", "8", "9"}

\* a bound of the range suffix: '?' if absent, else its decimal numeral
IsBound(text, pos) ==
    IF pos.some
    THEN /\ text /= <<>>
         /\ Range(text) \subseteq DigitSet
         /\ (Len(text) > 1 => text[1] /= "0")
         /\ DecimalValue(text) = pos.v
    ELSE text = <<"?">>

\* "<begin|?>-<end|?>"
IsRangeSuffix(text, begin, end) ==
    \E i \in DOMAIN text :
        /\ text[i] = "-"
        /\ IsBound(SubSeq(text, 1, i - 1), begin)
        /\ IsBound(SubSeq(text, i + 1, Len(text)), end)

\* the identifier of a key
Identifier(aos) ==
    CASE aos.kind = "SeqId" -> aos.value
      [] aos.kind = "Alias" /\ aos.namespace = None -> aos.value
      [] aos.kind = "Alias" /\ aos.namespace = Some(<<>>) -> aos.value
      [] OTHER -> aos.namespace.v \o <<":">> \o aos.value

-----------------------------------------------------------------------------
(* The claims. *)

\* C1: when threads sharing one write-back cache fetch with identical
\* arguments, at most one of these calls appends a record to the cache file.
C1_OneAppendPerArguments ==
    \A i, j \in DOMAIN hist :
        (hist[i].args = hist[j].args /\ hist[i].appended /\ hist[j].appended) => i = j

\* C2: for a single caller, once fetch has been called twice or more with
\* identical arguments and has returned a value, the cache file holds exactly
\* one record for that key.
C2_TwoFetchesOneRecord ==
    \A r \in CacheRequests :
        (Cardinality(CallsWith(r)) >= 2 /\ \E i \in CallsWith(r) : hist[i].ret.ok)
            => RecordCount(KeyOf(r)) = 1

\* C3: after a fetch whose append to the cache file failed, the key is not in
\* the in-memory index, so the next fetch with these arguments is a miss.
C3_FailedAppendNotIndexed ==
    \A t \in Threads :
        (pc[t] = "idle" /\ ~ret[t].ok /\ ret[t].kind = "SeqSepoCacheWrite")
            => KeyOf(req[t]) \notin DOMAIN cache

\* C4: the facade returns the ambiguous-alias error exactly when the matching
\* current records carry more than one distinct sequence id; with exactly one
\* distinct id it calls the Sequence Store with that id.
C4_AmbiguousIffDistinctIds ==
    (op = "fetch" /\ arg.aos.kind = "Alias") =>
        LET ids == {r.seq_id : r \in CurrentMatches(db, arg.aos)}
        IN  /\ (~out.ret.ok /\ out.ret.kind = "AliasDbResolutionAmbiguous")
                <=> Cardinality(ids) > 1
            /\ Cardinality(ids) = 1 =>
                out.fasta_calls =
                    <<[seq_id |-> CHOOSE id \in ids : TRUE,
                       begin |-> arg.begin, end |-> arg.end]>>

\* C5: a facade fetch of an {alias, namespace?} that no current record
\* matches returns the could-not-resolve error carrying the alias text and
\* makes no call to the Sequence Store, even if superseded records match.
C5_UnresolvedAlias ==
    (op = "fetch" /\ arg.aos.kind = "Alias" /\ CurrentMatches(db, arg.aos) = {}) =>
        /\ out.ret = Err("AliasDbResolve", arg.aos.value, <<>>)
        /\ out.fasta_calls = <<>>

\* an alias with superseded records only has been fetched
C5_Witness ==
    /\ op = "fetch"
    /\ arg.aos.kind = "Alias"
    /\ CurrentMatches(db, arg.aos) = {}
    /\ AnyMatches(db, arg.aos) /= {}
    /\ out.ret = Err("AliasDbResolve", arg.aos.value, <<>>)

\* C6: Aliases::find with a sequence-id filter returns exactly the records
\* whose sequence id equals (or, with '%', matches) the filter value, among
\* those the other filters select.
C6_SeqIdFilterOnSeqId ==
    (op = "find" /\ arg.seqid.some) => Range(out) = Selected(db, arg)

\* C7: no request distinct from the one whose key was built has the same key.
C7_KeysInjective ==
    op = "build_key" =>
        \A r \in KeyRequests : r /= arg => BuildKey(r.aos, r.begin, r.end) /= out

\* C8: the key is "<identifier>" when both bounds are absent and otherwise
\* "<identifier>:<begin|?>-<end|?>", the identifier being the sequence id,
\* "<namespace>:<alias>" for a non-empty namespace, or the bare alias.
C8_KeyFormat ==
    op = "build_key" =>
        LET id == Identifier(arg.aos)
        IN  IF arg.begin = None /\ arg.end = None
            THEN out = id
            ELSE /\ Len(out) > Len(id) + 1
                 /\ SubSeq(out, 1, Len(id) + 1) = id \o <<":">>
                 /\ IsRangeSuffix(SubSeq(out, Len(id) + 2, Len(out)), arg.begin, arg.end)

\* the keys the specification gives as examples have been built
C8_Witness ==
    /\ op = "build_key"
    /\ \/ arg = Request(Alias(sX, None), None, Some(4))
             /\ out = <<"X", ":", "?", "-", "4">>
       \/ arg = Request(SeqId(sS1), Some(0), Some(4))
             /\ out = <<"S", "1", ":", "0", "-", "4">>
       \/ arg = Request(Alias(sX, Some(sA)), None, None)
             /\ out = <<"A", ":", "X">>

\* C9: every fetch through the write-back cache returns what the wrapped
\* facade returns for the same arguments (a failure to write the cache file
\* aside).
C9_SameResultAsFacade ==
    \A i \in DOMAIN hist :
        (hist[i].ret.ok \/ hist[i].ret.kind /= "SeqSepoCacheWrite") =>
            hist[i].ret =
                SeqRepoFetch(db, hist[i].args.aos, hist[i].args.begin, hist[i].args.end).ret

\* a call of thread t starts in this step, its key being in the index
StartsOnHit(t) ==
    /\ ncalls'[t] = ncalls[t] + 1
    /\ KeyOf(req'[t]) \in DOMAIN cache

\* C10: a fetch whose key is in the in-memory index returns the cached value
\* in that step, without a call to the wrapped facade and without a change
\* to the index or to the cache file.
C10_HitFrame ==
    [][\A t \in Threads :
          StartsOnHit(t) =>
              /\ pc'[t] = "idle"
              /\ ret'[t] = Ok(cache[KeyOf(req'[t])])
              /\ repoCalls' = repoCalls
              /\ cache' = cache
              /\ file' = file]_vars

\* a call has been served from the index: two calls, one computation
C10_Witness ==
    /\ Len(hist) = 2
    /\ KeyOf(hist[1].args) = KeyOf(hist[2].args)
    /\ hist[2].ret.ok
    /\ ~hist[2].appended
    /\ repoCalls = 1
    /\ Len(file) = 1
    /\ \A t \in Threads : pc[t] = "idle"

\* a call of thread t starts in this step on a key that has a record in the file
StartsOnPersisted(t) ==
    /\ ncalls'[t] = ncalls[t] + 1
    /\ RecordCount(KeyOf(req'[t])) >= 1

\* C11: constructing the write-back cache on an existing cache file keeps the
\* file as it is and puts the name of every record of the file into the
\* index, with the sequence of a record of that name; and a fetch whose key
\* has a record in the file is a hit: it returns the indexed value in that
\* step, calls no facade and appends nothing; no step removes or changes a
\* record the file holds.
C11_RestartCumulative ==
    [][/\ gen' = gen + 1 =>
            /\ file' = file
            /\ \A i \in DOMAIN file :
                  /\ file[i].name \in DOMAIN cache'
                  /\ \E j \in DOMAIN file :
                        /\ file[j].name = file[i].name
                        /\ file[j].sequence = cache'[file[i].name]
       /\ \A t \in Threads :
            StartsOnPersisted(t) =>
                /\ pc'[t] = "idle"
                /\ ret'[t].ok
                /\ \E j \in DOMAIN file :
                      /\ file[j].name = KeyOf(req'[t])
                      /\ file[j].sequence = ret'[t].value
                /\ repoCalls' = repoCalls
                /\ file' = file
       /\ SubSeq(file', 1, Len(file)) = file]_vars

\* a key whose append had failed was appended after the cache was constructed
\* again, and then the key the file held from the start was served as a hit
C11_Witness ==
    /\ gen = 2
    /\ Len(hist) = 3
    /\ ~hist[1].ret.ok /\ hist[1].ret.kind = "SeqSepoCacheWrite"
    /\ hist[2].args = hist[1].args
    /\ hist[2].appended
    /\ hist[3].ret.ok
    /\ ~hist[3].appended
    /\ Len(file) = 2
    /\ KeyOf(hist[3].args) = file[1].name
    /\ KeyOf(hist[2].args) = file[2].name
    /\ file[1].name /= file[2].name
    /\ hist[3].ret.value = file[1].sequence

\* C12: a fetch through the read-only cache returns the indexed value of its
\* key, or the key-not-found error carrying the key when the key is absent
\* (whatever the facade would resolve), and no fetch changes the index, the
\* file or the number of facade calls.
C12_ReadingServesIndexOnly ==
    [][/\ (reading'.some /\ op' = "reading_fetch") =>
            LET key == KeyOf(arg')
            IN  IF key \in DOMAIN reading'.v
                THEN out' = Ok(reading'.v[key])
                ELSE out' = Err("SeqSepoCacheKey", key, <<>>)
       /\ reading.some =>
            /\ reading' = reading
            /\ repoCalls' = repoCalls
            /\ file' = file
            /\ cache' = cache]_vars

\* a key absent from a non-empty index was fetched, for arguments the facade
\* resolves: the error carries the key, which is not the bare identifier
C12_Witness ==
    /\ reading.some
    /\ reading.v /= EmptyMap
    /\ op = "reading_fetch"
    /\ KeyOf(arg) \notin DOMAIN reading.v
    /\ KeyOf(arg) /= arg.aos.value
    /\ SeqRepoFetch(db, arg.aos, arg.begin, arg.end).ret.ok
    /\ out = Err("SeqSepoCacheKey", KeyOf(arg), <<>>)

\* C13: what the read-only cache loaded from the file returns for some
\* arguments is the value every successful fetch through the write-back
\* cache returned for these arguments.
C13_RoundTrip ==
    (reading.some /\ op = "reading_fetch") =>
        \A i \in DOMAIN hist :
            (hist[i].args = arg /\ hist[i].ret.ok) => out = hist[i].ret

\* the same, for runs in which every append to the cache file succeeded
C13_RoundTripNoWriteFailure ==
    (/\ reading.some
     /\ op = "reading_fetch"
     /\ \A j \in DOMAIN hist : hist[j].ret.ok \/ hist[j].ret.kind /= "SeqSepoCacheWrite") =>
        \A i \in DOMAIN hist :
            (hist[i].args = arg /\ hist[i].ret.ok) => out = hist[i].ret

\* the recorded length of a known sequence id
LengthOf(seq_id) == FetchSeqinfo(seq_id).value.len

\* the begin of a request, an absent begin being 0
BeginOf(r) == IF r.begin.some THEN r.begin.v ELSE 0

\* the stored sequence as fetch(id, 0, length) returns it
WholeSequence(seq_id) ==
    FastaDirFetch(seq_id, Some(0), Some(LengthOf(seq_id))).value

\* C14: for a known sequence id, a fetch whose end is absent or greater than
\* the recorded length returns what fetch(id, begin, length) returns, which
\* for a begin inside the sequence is the sequence from begin to its end.
C14_EndClamped ==
    (/\ op = "fasta_fetch"
     /\ FetchSeqinfo(arg.seq_id).ok
     /\ (arg.end.some => arg.end.v > LengthOf(arg.seq_id))) =>
        /\ out = FastaDirFetch(arg.seq_id, arg.begin, Some(LengthOf(arg.seq_id)))
        /\ BeginOf(arg) < LengthOf(arg.seq_id) =>
              out = Ok(SubSeq(FetchSeqinfo(arg.seq_id).value.seq,
                              BeginOf(arg) + 1, LengthOf(arg.seq_id)))

\* an oversized end has been fetched from inside the sequence
C14_Witness ==
    /\ op = "fasta_fetch"
    /\ arg = FastaRequest(sS2, Some(2), Some(7))
    /\ out = Ok(<<"G", "A", "C">>)

\* C15: for a known sequence id and 0 <= begin <= end <= length (an absent
\* begin being 0), the fetch returns the substring [begin, end) of
\* fetch(id, 0, length), and the region asked of the reader is
\* [begin + 1, min(end, length)].
C15_SlicingConsistency ==
    (/\ op = "fasta_fetch"
     /\ FetchSeqinfo(arg.seq_id).ok
     /\ arg.end.some
     /\ BeginOf(arg) <= arg.end.v
     /\ arg.end.v <= LengthOf(arg.seq_id)) =>
        /\ out = Ok(SubSeq(WholeSequence(arg.seq_id), BeginOf(arg) + 1, arg.end.v))
        /\ FetchRegion(FetchSeqinfo(arg.seq_id).value, arg.begin, arg.end) =
              Ok([start |-> BeginOf(arg) + 1,
                  end |-> Min(arg.end.v, LengthOf(arg.seq_id))])

\* the same, for ranges that hold at least one symbol (begin < end)
C15_SlicingNonEmpty ==
    (/\ op = "fasta_fetch"
     /\ FetchSeqinfo(arg.seq_id).ok
     /\ arg.end.some
     /\ BeginOf(arg) < arg.end.v
     /\ arg.end.v <= LengthOf(arg.seq_id)) =>
        /\ out = Ok(SubSeq(WholeSequence(arg.seq_id), BeginOf(arg) + 1, arg.end.v))
        /\ FetchRegion(FetchSeqinfo(arg.seq_id).value, arg.begin, arg.end) =
              Ok([start |-> BeginOf(arg) + 1,
                  end |-> Min(arg.end.v, LengthOf(arg.seq_id))])

\* a <= b in the byte order of strings
StrLeq(a, b) == a = b \/ StrLess(a, b)

\* a precedes b, or ties with it, in the order (sequence id, namespace, alias)
SortKeyLeq(a, b) ==
    \/ StrLess(a.seq_id, b.seq_id)
    \/ /\ a.seq_id = b.seq_id
       /\ \/ StrLess(a.namespace, b.namespace)
          \/ /\ a.namespace = b.namespace
             /\ StrLeq(a.alias, b.alias)

\* C16: the records Aliases::find hands to the callback come one by one,
\* each once, in ascending order by (sequence id, namespace, alias), whatever
\* the query and whatever the order of the rows in the table.
C16_FindOrdered ==
    op = "find" =>
        /\ \A i, j \in DOMAIN out : i < j => SortKeyLeq(out[i], out[j])
        /\ \A i, j \in DOMAIN out : out[i] = out[j] => i = j

\* every row of a table stored in another order has been delivered in order
C16_Witness ==
    /\ op = "find"
    /\ db = RowUniverse
    /\ Len(out) = Cardinality(RowUniverse)
    /\ \E i, j \in DOMAIN out : i < j /\ out[i].seqalias_id > out[j].seqalias_id
    /\ out[1].seqalias_id = 2

\* no filter value of the query holds '%'
IsExact(query) ==
    /\ query.namespace.some => ~Contains(query.namespace.v, "%")
    /\ query.alias.some => ~Contains(query.alias.v, "%")
    /\ query.seqid.some => ~Contains(query.seqid.v, "%")

\* the filter wide is the filter exact, or a pattern the value of exact matches
Widens(wide, exact) ==
    \/ wide = exact
    \/ /\ wide.some
       /\ exact.some
       /\ Contains(wide.v, "%")
       /\ Like(wide.v, exact.v)

\* the queries got from an exact query by replacing filter values by patterns
Generalisations(exact) ==
    { q \in Queries :
        /\ q.current_only = exact.current_only
        /\ Widens(q.namespace, exact.namespace)
        /\ Widens(q.alias, exact.alias)
        /\ Widens(q.seqid, exact.seqid) }

\* C17: every record an exact query returns is returned by every query got
\* from it by replacing filter values by "%" or by a pattern they match.
C17_WildcardSuperset ==
    (op = "find" /\ IsExact(arg)) =>
        \A q \in Generalisations(arg) : Range(out) \subseteq Range(Find(db, q))

\* an exact query with a result has a generalisation with a larger result
C17_Witness ==
    /\ op = "find"
    /\ arg = Query(Some(sN), Some(sX), None, TRUE)
    /\ out /= <<>>
    /\ \E q \in Generalisations(arg) :
          /\ q.alias = Some(<<"%">>)
          /\ Range(out) \subseteq Range(Find(db, q))
          /\ Range(out) /= Range(Find(db, q))

\* C20: without a sequence-id filter, Aliases::find returns exactly the
\* records that satisfy every filter present: namespace, alias (each by
\* equality unless the value holds '%') and is-current when current_only is
\* set; with no filter at all, every record, or every current one.
C20_FindConjunction ==
    (op = "find" /\ ~arg.seqid.some) =>
        /\ Range(out) = Selected(db, arg)
        /\ Len(out) = Cardinality(Selected(db, arg))
        /\ (~arg.namespace.some /\ ~arg.alias.some) =>
              Range(out) = {r \in db : arg.current_only => r.is_current}

\* a namespace and an alias filter together have selected some of the current
\* records, fewer than either filter alone selects
C20_Witness ==
    /\ op = "find"
    /\ arg = Query(Some(sN), Some(sX), None, TRUE)
    /\ db = RowUniverse
    /\ Len(out) = 1
    /\ out[1].seqalias_id = 1
    /\ Cardinality(Selected(db, Query(Some(sN), None, None, TRUE))) = 2
    /\ Cardinality(Selected(db, Query(None, Some(sX), None, TRUE))) = 3

\* the rows a query selects, in the order of delivery
SelectedInOrder(rows, query) == OrderBy(Selected(rows, query))

\* C18: on a table holding a row whose timestamp cannot be parsed,
\* Aliases::find calls the callback once for every selected row, in order,
\* with an error for a row whose timestamp does not parse and with the
\* record otherwise, and it does not abort.
C18_BadTimestampReported ==
    op = "find_stored" =>
        LET sel == SelectedInOrder(db, arg)
        IN  /\ ~out.panicked
            /\ Len(out.calls) = Len(sel)
            /\ \A i \in DOMAIN sel :
                  i \in DOMAIN out.calls =>
                      IF ParseTimestamp(sel[i].added).ok
                      THEN /\ out.calls[i].ok
                           /\ out.calls[i].value.seqalias_id = sel[i].seqalias_id
                      ELSE ~out.calls[i].ok

\* the same, on tables in which every selected row has a timestamp that parses
C18_GoodTimestampsDelivered ==
    (/\ op = "find_stored"
     /\ \A r \in Selected(db, arg) : ParseTimestamp(r.added).ok) =>
        LET sel == SelectedInOrder(db, arg)
        IN  /\ ~out.panicked
            /\ Len(out.calls) = Len(sel)
            /\ \A i \in DOMAIN sel :
                  /\ out.calls[i].ok
                  /\ out.calls[i].value.seqalias_id = sel[i].seqalias_id

\* the text is a run of decimal digits
IsNumeral(text) == text /= <<>> /\ Range(text) \subseteq DigitSet

\* the meta table holds a schema version, a number other than 1
SchemaMismatch == meta.some /\ IsNumeral(meta.v) /\ StripZeros(meta.v) /= <<"1">>

ClampedEndOf(r) ==
    IF r.end.some THEN Min(r.end.v, LengthOf(r.seq_id)) ELSE LengthOf(r.seq_id)

\* C21: for a known sequence id, a fetch of a degenerate range, one with
\* begin >= min(end, length), returns the empty string and no error (the
\* result being a function of the arguments, it is the same every time).
C21_DegenerateEmpty ==
    (/\ op = "fasta_fetch"
     /\ FetchSeqinfo(arg.seq_id).ok
     /\ BeginOf(arg) >= ClampedEndOf(arg)) =>
        out = Ok(<<>>)

\* the result is an error of the wrapped facade (not of the cache file)
FacadeError(result) == ~result.ok /\ result.kind \notin {"SeqSepoCacheWrite", "none"}

\* a fetch on which the facade returned an error has returned that error and
\* appended nothing, and has left the key out of the index
C22_ErrorFrame ==
    /\ \A i \in DOMAIN hist :
          FacadeError(hist[i].ret) =>
              /\ hist[i].ret =
                    SeqRepoFetch(db, hist[i].args.aos, hist[i].args.begin, hist[i].args.end).ret
              /\ ~hist[i].appended
    /\ (pc[1] = "idle" /\ FacadeError(ret[1])) => KeyOf(req[1]) \notin DOMAIN cache
    /\ Len(file) = Cardinality({i \in DOMAIN hist : hist[i].appended})

\* C22: a fetch on which the wrapped facade returned an error returns that
\* error, with nothing inserted into the index and nothing appended to the
\* file, and every later fetch with the same arguments asks the facade again
\* (and so returns its error again instead of a cached value).
C22_ErrorsNeverCached ==
    /\ C22_ErrorFrame
    /\ \A i, j \in DOMAIN hist :
          (i < j /\ hist[i].args = hist[j].args /\ FacadeError(hist[i].ret)) =>
              hist[j].ret = hist[i].ret

\* line i of the persisted file opens a record
IsDefinition(i) == lines[i].part = "definition"

\* the record opened at line i was written whole by one thread, or is the
\* last line and its writer is still inside the critical section
WholeRecordAt(i) ==
    IF i < Len(lines)
    THEN /\ lines[i + 1].part = "sequence"
         /\ lines[i + 1].by = lines[i].by
    ELSE /\ writerLock = lines[i].by
         /\ pc[lines[i].by] = "write_sequence"

\* C23: with any interleaving of the threads sharing one write-back cache,
\* each record is written inside one writer critical section: every
\* definition line is followed at once by the sequence line of the same
\* thread (or is the last line while that thread still holds the writer),
\* every sequence line follows its definition line, at most one thread is
\* inside write_record, and whenever the writer lock is free the lines are
\* exactly the whole (key, value) records appended so far, in order.
C23_WholeRecords ==
    /\ \A i \in DOMAIN lines :
          IF IsDefinition(i)
          THEN WholeRecordAt(i)
          ELSE i > 1 /\ IsDefinition(i - 1) /\ lines[i - 1].by = lines[i].by
    /\ Cardinality({t \in Threads : pc[t] \in {"write_definition", "write_sequence"}}) <= 1
    /\ \A t \in Threads : pc[t] \in {"write_definition", "write_sequence"} => writerLock = t
    /\ writerLock = 0 =>
          /\ Len(lines) = 2 * Len(file)
          /\ \A k \in DOMAIN file :
                /\ lines[2 * k - 1].text = <<">">> \o file[k].name
                /\ lines[2 * k].text = file[k].sequence

\* a thread waits for the writer while another is between the two lines of
\* its record
C23_Witness ==
    \E t \in Threads :
        /\ pc[t] = "lock_writer"
        /\ writerLock \notin {0, t}
        /\ pc[writerLock] = "write_sequence"
        /\ IsDefinition(Len(lines))

\* the locks thread t holds
Held(t) == {l \in {"cache", "writer"} : IF l = "cache" THEN cacheLock = t ELSE writerLock = t}

\* no thread holds both locks, and none holds a lock while the facade computes
C24_LockDiscipline ==
    \A t \in Threads :
        /\ Cardinality(Held(t)) <= 1
        /\ pc[t] \in {"idle", "lock_get", "miss", "computed", "lock_writer"} => Held(t) = {}

\* every call of the wrapped facade returns
FacadeReturns == \A t \in Threads : []<>(pc[t] /= "miss")

\* C24: concurrent fetches on one shared write-back cache cannot deadlock: a
\* thread never holds the index lock and the writer lock together, holds
\* neither while the facade computes (nor while it waits for a lock), and,
\* provided every facade call returns, every fetch that has started
\* eventually returns.
C24_NoDeadlock ==
    /\ []C24_LockDiscipline
    /\ FacadeReturns => \A t \in Threads : (pc[t] /= "idle") ~> (pc[t] = "idle")

\* both locks are held, by different threads, while neither call has returned
C24_Witness ==
    /\ cacheLock /= 0
    /\ writerLock /= 0
    /\ cacheLock /= writerLock
    /\ pc[cacheLock] \in {"get", "insert"}
    /\ pc[writerLock] \in {"write_definition", "write_sequence"}

\* the call that returns in this step, if one does
Returned == IF Len(hist') = Len(hist) + 1 THEN Some(hist'[Len(hist')]) ELSE None

\* no append has failed
NoAppendFailed == \A i \in DOMAIN hist : hist[i].ret.ok \/ hist[i].ret.kind /= "SeqSepoCacheWrite"

\* the names of the records of the persisted file
RecordNames == {file[i].name : i \in DOMAIN file}

\* no step removes a key of the index
C25_KeysKept == DOMAIN cache \subseteq DOMAIN cache'

\* a call that returns a value leaves its key mapped to that value
C25_ReturnedValueIndexed ==
    (Returned.some /\ Returned.v.ret.ok) =>
        /\ KeyOf(Returned.v.args) \in DOMAIN cache'
        /\ cache'[KeyOf(Returned.v.args)] = Returned.v.ret.value

\* with no call under way and no append failed, the index has the keys of
\* the file's records
C25_KeysAreRecordNames ==
    ((\A t \in Threads : pc[t] = "idle") /\ NoAppendFailed) => DOMAIN cache = RecordNames

\* C25: the in-memory index of the write-back cache only grows: no fetch
\* removes a key, every fetch that returns a value leaves its key mapped to
\* the value it returned, and, when no append has failed and no call is under
\* way, the keys of the index are the names of the records in the file.
C25_IndexOnlyGrows ==
    [][C25_KeysKept /\ C25_ReturnedValueIndexed /\ C25_KeysAreRecordNames]_vars

====
